---------------------------- MODULE Spec2Model ----------------------------
(***************************************************************************)
(* Off-chain Merkle-tree manager of the cNFT NIFs                          *)
(* (native/cnftnif/src/setup.rs, lib.rs, utils.rs).                        *)
(*                                                                         *)
(* The caller holds one TreeManager value and hands it to the NIFs         *)
(* create_merkle_tree, mint_cnft and transfer_cnft; each NIF works on a    *)
(* clone and returns the clone on Ok, so the caller's value changes only   *)
(* on success.  The ledger reached through RPC_CLIENT is the environment:  *)
(* it confirms or rejects each submitted transaction, and keeps its own    *)
(* leaf array.                                                             *)
(*                                                                         *)
(* Byte strings are sequences of numbers 0..255, base58 text is a sequence *)
(* of digit values (0 is the character '1').  A digest is modelled by its  *)
(* tagged preimage, i.e. keccak is taken to be collision free.             *)
(***************************************************************************)
EXTENDS Integers, Sequences, FiniteSets, TLC

\* ------------------------------------------------------------------------
\* Bounds of the model and constants of the program

\* Depth of the tree (14 in the program; the model checks small trees).
MaxDepth == 2

\* Number of transactions the ledger confirms in one explored run.
MaxConfirmed == 5

MaxBufferSize == 64

\* Length of a hash and of a public key in bytes (32 in the program; the
\* model checks short hashes).
HashLen == 4

\* Length of a serialized keypair in bytes: secret half and public half.
KeypairLen == 2 * HashLen

\* Pubkey::from_str refuses text longer than this.
MaxBase58Len == 44

\* Digit values of base58 text run from 0 to Base - 1.
Base == 58

\* Stand-ins for a character outside the alphabet and for a blank.
BadChar == Base
Blank == Base + 1

RECURSIVE Pow2(_)
Pow2(n) == IF n = 0 THEN 1 ELSE 2 * Pow2(n - 1)

\* Number of leaves: (0..16384) in TreeManager::default, [Node; 16384].
Capacity == Pow2(MaxDepth)

\* ------------------------------------------------------------------------
\* Byte and text helpers

Repeat(x, n) == [i \in 1..n |-> x]

Reverse(s) == [i \in 1..Len(s) |-> s[Len(s) + 1 - i]]

\* Text of n characters '1' followed by the digits d.
Ones(n, d) == Repeat(0, n) \o d

\* bs58 decode, inner loop: multiply the little-endian number in out by 58
\* and add val, byte by byte, then push the remaining carry.
RECURSIVE Carry(_)
Carry(val) == IF val = 0 THEN <<>> ELSE <<val % 256>> \o Carry(val \div 256)

RECURSIVE MulAdd(_, _)
MulAdd(out, val) ==
    IF out = <<>> THEN Carry(val)
    ELSE LET v == val + Head(out) * Base
         IN  <<v % 256>> \o MulAdd(Tail(out), v \div 256)

RECURSIVE DecodeLoop(_, _)
DecodeLoop(s, out) ==
    IF s = <<>> THEN out ELSE DecodeLoop(Tail(s), MulAdd(out, Head(s)))

\* Number of characters '1' the text starts with.
LeadingOnes(s) ==
    IF \A i \in 1..Len(s) : s[i] = 0 THEN Len(s)
    ELSE (CHOOSE i \in 1..Len(s) : s[i] # 0 /\ \A j \in 1..(i - 1) : s[j] = 0) - 1

\* bs58::decode(s).into_vec(): an error on a character outside the
\* alphabet, otherwise the bytes, one zero byte per leading '1'.  The
\* leading '1's leave the number at zero, so the loop starts behind them.
Bs58Decode(s) ==
    LET z == LeadingOnes(s)
    IN  IF \E i \in 1..Len(s) : s[i] >= Base
        THEN [ok |-> FALSE, bytes |-> <<>>]
        ELSE [ok |-> TRUE,
              bytes |-> Repeat(0, z)
                        \o Reverse(DecodeLoop(SubSeq(s, z + 1, Len(s)), <<>>))]

\* str::trim().is_empty(): the text holds nothing but blanks.
TrimIsEmpty(s) == \A i \in 1..Len(s) : s[i] = Blank

\* utils.rs base58_to_array: the decoded bytes as [u8; 32].
base58_to_array(b58_str) ==
    LET d == Bs58Decode(b58_str)
    IN  IF d.ok /\ Len(d.bytes) = HashLen
        THEN [ok |-> TRUE, bytes |-> d.bytes]
        ELSE [ok |-> FALSE, bytes |-> <<>>]

\* utils.rs safely_from_base58_string: decode, then Keypair::from_bytes,
\* which takes secret and public half; pubkey is the public half.
safely_from_base58_string(s) ==
    LET d == Bs58Decode(s)
    IN  IF d.ok /\ Len(d.bytes) = KeypairLen
        THEN [ok |-> TRUE, pubkey |-> SubSeq(d.bytes, HashLen + 1, KeypairLen)]
        ELSE [ok |-> FALSE, pubkey |-> <<>>]

\* Pubkey::from_str: at most 44 characters that decode to 32 bytes.
PubkeyFromStr(s) ==
    LET d == Bs58Decode(s)
    IN  IF Len(s) <= MaxBase58Len /\ d.ok /\ Len(d.bytes) = HashLen
        THEN [ok |-> TRUE, pubkey |-> d.bytes]
        ELSE [ok |-> FALSE, pubkey |-> <<>>]

\* ------------------------------------------------------------------------
\* Hasher

\* vec![0; 32], the placeholder of a slot that holds no leaf.
ZeroHash == Repeat(0, HashLen)

\* get_asset_id(&tree_account.pubkey(), nonce)
get_asset_id(tree, nonce) == <<3, tree, nonce>>

\* hash_metadata of the MetadataArgs built by mint_cnft: all fields are
\* fixed but the name, which carries the value of minted.
hash_metadata(n) == <<4, n>>

\* hash_creators(&vec![])
hash_creators == <<5>>

\* LeafSchema::V1 { id, owner, delegate, nonce, data_hash, creator_hash }.hash()
LeafHash(id, owner, delegate, nonce, data_hash, creator_hash) ==
    <<1>> \o id \o owner \o delegate \o <<nonce>> \o data_hash \o creator_hash

\* Hash of an inner node of the tree over its two children.
HashNode(l, r) == <<2>> \o l \o r

\* ------------------------------------------------------------------------
\* MerkleTree::new and get_proof_of_leaf.  A level is a function on 0..n-1.

LevelUp(level, n) ==
    [j \in 0..(n \div 2 - 1) |-> HashNode(level[2 * j], level[2 * j + 1])]

RECURSIVE RootOf(_, _)
RootOf(level, n) ==
    IF n = 1 THEN level[0] ELSE RootOf(LevelUp(level, n), n \div 2)

\* MerkleTree::new(&leaves).root
MerkleRoot(leaves) == RootOf(leaves, Capacity)

Sibling(i) == IF i % 2 = 0 THEN i + 1 ELSE i - 1

RECURSIVE ProofOf(_, _, _)
ProofOf(level, n, i) ==
    IF n = 1 THEN <<>>
    ELSE <<level[Sibling(i)]>> \o ProofOf(LevelUp(level, n), n \div 2, i \div 2)

\* get_proof(&merkle_tree, index): the siblings from the leaf to the root.
get_proof_of_sibling(leaves, index) == ProofOf(leaves, Capacity, Sibling(index))

get_proof_root_first(leaves, index) == Reverse(ProofOf(leaves, Capacity, index))

get_proof(leaves, index) == ProofOf(leaves, Capacity, index)

\* ------------------------------------------------------------------------
\* Arguments the caller passes and answers the RPC node gives

\* Private keys: two keypairs, no text, blanks only, a keypair behind a
\* blank, and text that decodes to 32 bytes instead of 64.
TreeOwnerKey == Ones(KeypairLen - 1, <<2>>)
OldOwnerKey == Ones(KeypairLen - 1, <<3>>)
EmptyKey == <<>>
BlankKey == <<Blank, Blank>>
PaddedKey == <<Blank>> \o TreeOwnerKey
ShortKey == Ones(HashLen - 1, <<2>>)

\* Public keys: two owners, and text that decodes to 31 bytes.
Owner1 == Ones(HashLen - 1, <<6>>)
Owner2 == Ones(HashLen - 1, <<7>>)
BadOwner == Ones(HashLen - 2, <<6>>)

\* Hashes: 32 bytes, 31 bytes, 33 bytes, and a character outside base58.
DataHash1 == Ones(HashLen - 2, <<5, 0>>)
DataHash31 == Ones(HashLen - 2, <<8>>)
CreatorHash1 == Ones(HashLen - 1, <<9>>)
CreatorHash33 == Ones(HashLen - 1, <<5, 0>>)
CreatorHashBad == Ones(HashLen - 1, <<BadChar>>)

GoodTransfer(i, o) ==
    [tree_owner_private_key |-> TreeOwnerKey, old_owner_private_key |-> OldOwnerKey,
     new_owner_pub_key |-> o, index |-> i,
     data_hash |-> DataHash1, creator_hash |-> CreatorHash1]

\* What the RPC node and the Bubblegum hasher answer during one call:
\* every request served and the transaction confirmed, the rent or the
\* blockhash request failing, the transaction rejected, or hash_metadata
\* returning Err.
Envs == {"confirm", "rent_fails", "blockhash_fails", "reject", "hash_fails"}

\* Calls of each NIF: sound arguments under every answer of the
\* environment, and each unsound argument by itself.
CreateCalls ==
    {[owner_private_key |-> TreeOwnerKey, env |-> e] : e \in Envs \ {"hash_fails"}}
    \cup {[owner_private_key |-> k, env |-> "confirm"]
          : k \in {EmptyKey, BlankKey, PaddedKey, ShortKey}}

MintCalls ==
    {[owner_private_key |-> TreeOwnerKey, nft_owner |-> o, env |-> e]
     : o \in {Owner1}, e \in Envs \ {"rent_fails"}}
    \cup {[owner_private_key |-> k, nft_owner |-> Owner1, env |-> "confirm"]
          : k \in {EmptyKey, BlankKey, ShortKey}}
    \cup {[owner_private_key |-> TreeOwnerKey, nft_owner |-> BadOwner, env |-> "confirm"]}

\* Transfers at the first two slots, at the last slot and one past it.
TransferCalls ==
    UNION {
        {[a |-> GoodTransfer(i, o), env |-> e]
         : o \in {Owner2}, e \in Envs \ {"rent_fails", "hash_fails"}}
        \cup {[a |-> b, env |-> "confirm"] : b \in {
         [GoodTransfer(i, Owner1) EXCEPT !.tree_owner_private_key = BlankKey],
         [GoodTransfer(i, Owner1) EXCEPT !.tree_owner_private_key = ShortKey],
         [GoodTransfer(i, Owner1) EXCEPT !.old_owner_private_key = EmptyKey],
         [GoodTransfer(i, Owner1) EXCEPT !.old_owner_private_key = ShortKey],
         [GoodTransfer(i, Owner1) EXCEPT !.new_owner_pub_key = BadOwner],
         [GoodTransfer(i, Owner1) EXCEPT !.data_hash = DataHash31],
         [GoodTransfer(i, Owner1) EXCEPT !.creator_hash = CreatorHash33],
         [GoodTransfer(i, Owner1) EXCEPT !.creator_hash = CreatorHashBad]}}
        : i \in {0, 1, Capacity - 1, Capacity}}

\* Identities Keypair::new() may give the tree account.
TreeAccounts == {11}

\* ------------------------------------------------------------------------
\* State

VARIABLES
    max_depth,                \* TreeManager.max_depth
    max_buffer_size,          \* TreeManager.max_buffer_size
    serialized_tree_account,  \* TreeManager.serialized_tree_account
    nodes,                    \* TreeManager.nodes, a function on 0..Capacity-1
    minted,                   \* TreeManager.minted
    ledgerCreated,            \* the ledger confirmed a create transaction
    ledgerNodes,              \* leaves of the tree account on the ledger
    ledgerMinted,             \* mints the ledger has confirmed
    last,                     \* the NIF call whose result the caller holds
    confirmations             \* transactions the ledger has confirmed

manager == <<max_depth, max_buffer_size, serialized_tree_account, nodes, minted>>
ledger == <<ledgerCreated, ledgerNodes, ledgerMinted>>
vars == <<manager, ledger, last, confirmations>>

\* The TreeManager value the caller holds.
Self ==
    [max_depth |-> max_depth, max_buffer_size |-> max_buffer_size,
     serialized_tree_account |-> serialized_tree_account,
     nodes |-> nodes, minted |-> minted]

\* get_minted
get_minted(self) == self.minted

\* utils.rs convert_nodes: the leaves as [Node; 16384]; panics on any
\* other number of leaves.
convert_nodes(ns) == [ok |-> DOMAIN ns = 0..(Capacity - 1), leaves |-> ns]

NoTx == [kind |-> "none"]

\* Outcomes of a method: Ok(signature), Err(message), or a panic.
Ok(self, steps, tx) ==
    [status |-> "ok", err |-> "none", self |-> self, steps |-> steps, tx |-> tx]
Err(self, kind, steps, tx) ==
    [status |-> "err", err |-> kind, self |-> self, steps |-> steps, tx |-> tx]
Panic(self, steps, tx) ==
    [status |-> "panic", err |-> "panic", self |-> self, steps |-> steps, tx |-> tx]

\* The ledger confirms a submitted transaction unless the node rejects
\* it; a tree account of depth max_depth takes no mint once it is full.
LedgerConfirms(tx, env) ==
    /\ env \in {"confirm", "hash_fails"}
    /\ tx.kind = "mint" => ledgerMinted < Capacity

\* RPC_CLIENT.send_and_confirm_transaction(&txn): Ok(signature) once the
\* ledger has confirmed the transaction, Err otherwise.
send_and_confirm_transaction_unchecked(tx, env) == TRUE

send_and_confirm_transaction(tx, env) == LedgerConfirms(tx, env)

\* self.nodes[minted_nonce] = leaf.hash().to_vec(); self.minted += 1
CommitMint_push(self, minted_nonce, leaf) ==
    [self EXCEPT !.nodes = [i \in 0..Capacity |->
                               IF i = Capacity THEN leaf ELSE self.nodes[i]],
                 !.minted = @ + 1]

CommitMint_no_increment(self, minted_nonce, leaf) ==
    [self EXCEPT !.nodes[minted_nonce] = leaf]

CommitMint_increment_first(self, minted_nonce, leaf) ==
    [self EXCEPT !.nodes[minted_nonce + 1] = leaf, !.minted = @ + 1]

CommitMint(self, minted_nonce, leaf) ==
    [self EXCEPT !.nodes[minted_nonce] = leaf, !.minted = @ + 1]

\* self.nodes[index] = leaf.hash().to_vec()
CommitTransfer_next_slot(self, index, leaf) ==
    [self EXCEPT !.nodes[(index + 1) % Capacity] = leaf]

CommitTransfer_uncounts(self, index, leaf) ==
    [self EXCEPT !.nodes[index] = leaf, !.minted = @ - 1]

CommitTransfer_counts(self, index, leaf) ==
    [self EXCEPT !.nodes[index] = leaf, !.minted = @ + 1]

CommitTransfer(self, index, leaf) == [self EXCEPT !.nodes[index] = leaf]

\* ------------------------------------------------------------------------
\* setup.rs: the methods of TreeManager.  Each gives the outcome, the steps
\* run in order, the transaction handed to send_and_confirm_transaction
\* (NoTx when none was), and the manager as the method leaves it.

create_tree_clears(self, owner_private_key, env) ==
    Ok([self EXCEPT !.nodes = [i \in DOMAIN self.nodes |-> ZeroHash], !.minted = 0],
       <<"tree_account">>, NoTx)

create_tree(self, owner_private_key, env) ==
    LET tree_owner == safely_from_base58_string(owner_private_key)
        tx == [kind |-> "create", tree |-> self.serialized_tree_account,
               payer |-> tree_owner.pubkey,
               max_depth |-> MaxDepth, max_buffer_size |-> MaxBufferSize]
        s1 == <<"tree_account", "check_owner_key">>
        s2 == s1 \o <<"decode_owner_key">>
        s3 == s2 \o <<"get_rent">>
        s4 == s3 \o <<"get_blockhash">>
        s5 == s4 \o <<"submit">>
    IN  IF TrimIsEmpty(owner_private_key) THEN Err(self, "InvalidCredential", s1, NoTx)
        ELSE IF ~tree_owner.ok THEN Err(self, "InvalidCredential", s2, NoTx)
        ELSE IF env = "rent_fails" THEN Err(self, "RpcFailed", s3, NoTx)
        ELSE IF env = "blockhash_fails" THEN Err(self, "RpcFailed", s4, NoTx)
        ELSE IF ~send_and_confirm_transaction(tx, env) THEN Err(self, "SubmissionFailed", s5, tx)
        ELSE Ok(self, s5, tx)

mint_cnft_resends(self, owner_private_key, nft_owner_str, env) ==
    Err(self, "SubmissionFailed",
        <<"get_blockhash", "submit", "get_blockhash", "submit">>,
        [kind |-> "mint", tree |-> self.serialized_tree_account,
         payer |-> safely_from_base58_string(owner_private_key).pubkey,
         leaf_owner |-> PubkeyFromStr(nft_owner_str).pubkey,
         leaf_delegate |-> PubkeyFromStr(nft_owner_str).pubkey,
         metadata |-> self.minted])

mint_cnft(self, owner_private_key, nft_owner_str, env) ==
    LET tree_owner == safely_from_base58_string(owner_private_key)
        nft_owner == PubkeyFromStr(nft_owner_str)
        tx == [kind |-> "mint", tree |-> self.serialized_tree_account,
               payer |-> tree_owner.pubkey,
               leaf_owner |-> nft_owner.pubkey, leaf_delegate |-> nft_owner.pubkey,
               metadata |-> self.minted]
        minted_nonce == get_minted(self)
        data_hash == hash_metadata(self.minted)
        creator_hash == hash_creators
        asset_id == get_asset_id(self.serialized_tree_account, minted_nonce)
        leaf == LeafHash(asset_id, nft_owner.pubkey, nft_owner.pubkey,
                         minted_nonce, data_hash, creator_hash)
        s1 == <<"tree_account", "check_owner_key">>
        s2 == s1 \o <<"decode_owner_key">>
        s3 == s2 \o <<"parse_nft_owner">>
        s4 == s3 \o <<"get_blockhash">>
        s5 == s4 \o <<"submit">>
        s6 == s5 \o <<"hash_metadata">>
        s7 == s6 \o <<"write_node">>
        s8 == s7 \o <<"inc_minted">>
    IN  IF TrimIsEmpty(owner_private_key) THEN Err(self, "InvalidCredential", s1, NoTx)
        ELSE IF ~tree_owner.ok THEN Err(self, "InvalidCredential", s2, NoTx)
        ELSE IF ~nft_owner.ok THEN Err(self, "InvalidRecipient", s3, NoTx)
        ELSE IF env = "blockhash_fails" THEN Err(self, "RpcFailed", s4, NoTx)
        ELSE IF ~send_and_confirm_transaction(tx, env) THEN Err(self, "SubmissionFailed", s5, tx)
        ELSE IF env = "hash_fails" THEN Err(self, "EncodingError", s6, tx)
        ELSE IF minted_nonce \notin DOMAIN self.nodes THEN Panic(self, s7, tx)
        ELSE Ok(CommitMint(self, minted_nonce, leaf), s8, tx)

transfer_cnft(self, a, env) ==
    LET converted == convert_nodes(self.nodes)
        leaves == converted.leaves
        data_hash_as_array == base58_to_array(a.data_hash)
        creator_hash_as_array == base58_to_array(a.creator_hash)
        tree_owner == safely_from_base58_string(a.tree_owner_private_key)
        old_owner == safely_from_base58_string(a.old_owner_private_key)
        new_owner == PubkeyFromStr(a.new_owner_pub_key)
        tx == [kind |-> "transfer", tree |-> self.serialized_tree_account,
               payer |-> tree_owner.pubkey,
               leaf_owner |-> old_owner.pubkey, leaf_delegate |-> old_owner.pubkey,
               new_leaf_owner |-> new_owner.pubkey,
               root |-> MerkleRoot(leaves),
               data_hash |-> data_hash_as_array.bytes,
               creator_hash |-> creator_hash_as_array.bytes,
               nonce |-> a.index, index |-> a.index,
               proof |-> get_proof(leaves, a.index)]
        asset_id == get_asset_id(self.serialized_tree_account, a.index)
        leaf == LeafHash(asset_id, new_owner.pubkey, new_owner.pubkey, a.index,
                         data_hash_as_array.bytes, creator_hash_as_array.bytes)
        s0 == <<"convert_nodes">>
        s1 == s0 \o <<"merkle_tree_new", "get_proof">>
        s2 == s1 \o <<"decode_data_hash">>
        s3 == s2 \o <<"decode_creator_hash">>
        s4 == s3 \o <<"tree_account", "check_tree_owner_key">>
        s5 == s4 \o <<"decode_tree_owner_key">>
        s6 == s5 \o <<"check_old_owner_key">>
        s7 == s6 \o <<"decode_old_owner_key">>
        s8 == s7 \o <<"parse_new_owner">>
        s9 == s8 \o <<"get_blockhash">>
        s10 == s9 \o <<"submit">>
        s11 == s10 \o <<"write_node">>
    IN  IF ~converted.ok THEN Panic(self, s0, NoTx)
        ELSE IF a.index \notin DOMAIN leaves THEN Panic(self, s1, NoTx)
        ELSE IF ~data_hash_as_array.ok THEN Err(self, "InvalidHashEncoding", s2, NoTx)
        ELSE IF ~creator_hash_as_array.ok THEN Err(self, "InvalidHashEncoding", s3, NoTx)
        ELSE IF TrimIsEmpty(a.tree_owner_private_key) THEN Err(self, "InvalidCredential", s4, NoTx)
        ELSE IF ~tree_owner.ok THEN Err(self, "InvalidCredential", s5, NoTx)
        ELSE IF TrimIsEmpty(a.old_owner_private_key) THEN Err(self, "InvalidCredential", s6, NoTx)
        ELSE IF ~old_owner.ok THEN Err(self, "InvalidCredential", s7, NoTx)
        ELSE IF ~new_owner.ok THEN Err(self, "InvalidRecipient", s8, NoTx)
        ELSE IF env = "blockhash_fails" THEN Err(self, "RpcFailed", s9, NoTx)
        ELSE IF ~send_and_confirm_transaction(tx, env) THEN Err(self, "SubmissionFailed", s10, tx)
        ELSE Ok(CommitTransfer(self, a.index, leaf), s11, tx)

\* ------------------------------------------------------------------------
\* The ledger, on a transaction it confirms: Bubblegum creates the tree,
\* appends the minted leaf at its own count, or replaces the leaf at index.

LedgerLeaf(tx) ==
    IF tx.kind = "mint"
    THEN LeafHash(get_asset_id(tx.tree, ledgerMinted), tx.leaf_owner, tx.leaf_delegate,
                  ledgerMinted, hash_metadata(tx.metadata), hash_creators)
    ELSE LeafHash(get_asset_id(tx.tree, tx.nonce), tx.new_leaf_owner, tx.new_leaf_owner,
                  tx.nonce, tx.data_hash, tx.creator_hash)

LedgerStep(r, env) ==
    IF r.tx.kind = "none" \/ ~LedgerConfirms(r.tx, env)
    THEN UNCHANGED ledger
    ELSE /\ ledgerCreated' = (ledgerCreated \/ r.tx.kind = "create")
         /\ ledgerNodes' =
                IF r.tx.kind = "mint"
                THEN [ledgerNodes EXCEPT ![ledgerMinted] = LedgerLeaf(r.tx)]
                ELSE IF r.tx.kind = "transfer"
                THEN [ledgerNodes EXCEPT ![r.tx.index] = LedgerLeaf(r.tx)]
                ELSE ledgerNodes
         /\ ledgerMinted' = IF r.tx.kind = "mint" THEN ledgerMinted + 1 ELSE ledgerMinted

\* ------------------------------------------------------------------------
\* lib.rs: the NIFs.  Each runs the method on a clone of the manager it is
\* given and returns the clone on Ok; on Err, and on a panic, the caller
\* is left with the manager it passed.

Returned(r) ==
    /\ max_depth' = IF r.status = "ok" THEN r.self.max_depth ELSE max_depth
    /\ max_buffer_size' =
           IF r.status = "ok" THEN r.self.max_buffer_size ELSE max_buffer_size
    /\ serialized_tree_account' =
           IF r.status = "ok" THEN r.self.serialized_tree_account
           ELSE serialized_tree_account
    /\ nodes' = IF r.status = "ok" THEN r.self.nodes ELSE nodes
    /\ minted' = IF r.status = "ok" THEN r.self.minted ELSE minted

Record(op, r, env) ==
    /\ last' = [op |-> op, status |-> r.status, err |-> r.err,
                steps |-> r.steps, tx |-> r.tx,
                confirmed |-> (r.tx.kind # "none" /\ LedgerConfirms(r.tx, env))]
    /\ confirmations' =
           IF r.tx.kind # "none" /\ LedgerConfirms(r.tx, env)
           THEN confirmations + 1 ELSE confirmations

Init_short_array ==
    /\ max_depth = MaxDepth
    /\ max_buffer_size = MaxBufferSize
    /\ serialized_tree_account \in TreeAccounts
    /\ nodes = [i \in 0..(Capacity - 2) |-> ZeroHash]
    /\ minted = 0
    /\ ledgerCreated = FALSE
    /\ ledgerNodes = [i \in 0..(Capacity - 1) |-> ZeroHash]
    /\ ledgerMinted = 0
    /\ last = [op |-> "init", status |-> "ok", err |-> "none",
               steps |-> <<>>, tx |-> NoTx, confirmed |-> FALSE]
    /\ confirmations = 0

\* TreeManager::default and tree_manager_init
Init ==
    /\ max_depth = MaxDepth
    /\ max_buffer_size = MaxBufferSize
    /\ serialized_tree_account \in TreeAccounts
    /\ nodes = [i \in 0..(Capacity - 1) |-> ZeroHash]
    /\ minted = 0
    /\ ledgerCreated = FALSE
    /\ ledgerNodes = [i \in 0..(Capacity - 1) |-> ZeroHash]
    /\ ledgerMinted = 0
    /\ last = [op |-> "init", status |-> "ok", err |-> "none",
               steps |-> <<>>, tx |-> NoTx, confirmed |-> FALSE]
    /\ confirmations = 0

\* The caller has taken the result of its last call, and the explored run
\* holds at most MaxConfirmed confirmed transactions.
MayCall(env) ==
    /\ last.op = "none"
    /\ env \in {"confirm", "hash_fails"} => confirmations < MaxConfirmed

CreateCall(c) ==
    LET r == create_tree(Self, c.owner_private_key, c.env)
    IN  /\ MayCall(c.env)
        /\ Returned(r)
        /\ LedgerStep(r, c.env)
        /\ Record("create_tree", r, c.env)

MintCall(c) ==
    LET r == mint_cnft(Self, c.owner_private_key, c.nft_owner, c.env)
    IN  /\ MayCall(c.env)
        /\ Returned(r)
        /\ LedgerStep(r, c.env)
        /\ Record("mint_cnft", r, c.env)

TransferCall(c) ==
    LET r == transfer_cnft(Self, c.a, c.env)
    IN  /\ MayCall(c.env)
        /\ Returned(r)
        /\ LedgerStep(r, c.env)
        /\ Record("transfer_cnft", r, c.env)

\* The caller matches the result of the call, {:ok, tree_manager, hash} or
\* an error, and goes on with the manager it holds.
caller_continues ==
    /\ last.op # "none"
    /\ last' = [op |-> "none", status |-> "ok", err |-> "none",
                steps |-> <<>>, tx |-> NoTx, confirmed |-> FALSE]
    /\ UNCHANGED <<manager, ledger, confirmations>>

create_merkle_tree == \E c \in CreateCalls : CreateCall(c)

mint_cnft_nif == \E c \in MintCalls : MintCall(c)

transfer_cnft_nif == \E c \in TransferCalls : TransferCall(c)

Next == create_merkle_tree \/ mint_cnft_nif \/ transfer_cnft_nif \/ caller_continues

Spec == Init /\ [][Next]_vars

\* ------------------------------------------------------------------------
\* Properties

\* The step changes the leaf array or the counter of the caller's manager.
Changed == nodes' # nodes \/ minted' # minted

\* Errors of validation and encoding, as against errors of the RPC node.
ValidationErrors ==
    {"InvalidCredential", "InvalidRecipient", "InvalidHashEncoding", "EncodingError"}

\* Root recomputed from a leaf and its proof, the side of each sibling
\* taken from the bit of the index at that level.
RECURSIVE Fold(_, _, _)
Fold(proof, cur, i) ==
    IF proof = <<>> THEN cur
    ELSE Fold(Tail(proof),
              IF i % 2 = 0 THEN HashNode(cur, Head(proof)) ELSE HashNode(Head(proof), cur),
              i \div 2)

\* C1: slots [minted, capacity) hold the zero sentinel and slots
\* [0, minted) hold a committed, non-sentinel leaf hash, in every state.
C1_SlotsPartition ==
    \A i \in 0..(Capacity - 1) :
        /\ i >= minted => nodes[i] = ZeroHash
        /\ i < minted => nodes[i] # ZeroHash

\* C2: 0 <= minted <= capacity = 2^max_depth in every state; a step never
\* lowers minted: a successful mint raises it by exactly 1, every other
\* step leaves it as it is.
C2_MintedBounded ==
    /\ [](minted >= 0 /\ minted <= Capacity /\ Capacity = Pow2(max_depth))
    /\ [][/\ minted' >= minted
          /\ (last'.op = "mint_cnft" /\ last'.status = "ok") => minted' = minted + 1
          /\ ~(last'.op = "mint_cnft" /\ last'.status = "ok") => minted' = minted]_vars

C2_Witness == last.op = "mint_cnft" /\ last.status = "ok" /\ minted = Capacity

\* C3: the local leaf array equals the ledger's slot for slot, minted
\* equals the number of mints the ledger confirmed, and so the local root
\* equals the ledger's root.
C3_MirrorsLedger ==
    /\ nodes = ledgerNodes
    /\ minted = ledgerMinted
    /\ MerkleRoot(nodes) = MerkleRoot(ledgerNodes)

\* C4: the leaf array and minted are written only in a call whose
\* transaction the ledger has confirmed, and after the submission; a call
\* whose submission fails returns an error and leaves both as they were.
C4_WriteAfterConfirm ==
    [][/\ Changed => /\ last'.confirmed
                     /\ last'.status = "ok"
                     /\ last'.op \in {"mint_cnft", "transfer_cnft"}
       /\ \A i \in 1..Len(last'.steps) :
              last'.steps[i] \in {"write_node", "inc_minted"}
                  => /\ last'.confirmed
                     /\ \E j \in 1..(i - 1) : last'.steps[j] = "submit"
       /\ (last'.tx.kind # "none" /\ ~last'.confirmed)
              => (last'.status = "err" /\ ~Changed)]_vars

C4_Witness ==
    /\ last.op = "mint_cnft"
    /\ last.err = "SubmissionFailed"
    /\ ~last.confirmed
    /\ minted > 0

\* C5: a call that returns a validation or encoding error has submitted
\* no transaction and has changed neither the leaf array nor minted.
C5_ValidationBeforeSubmit ==
    [][last'.err \in ValidationErrors
           => /\ last'.tx.kind = "none"
              /\ \A i \in 1..Len(last'.steps) : last'.steps[i] # "submit"
              /\ ~Changed]_vars

\* C6: a transfer with index >= minted fails with IndexOutOfRange and
\* leaves the leaf array unchanged, whatever the other arguments are.
C6_UnmintedIndexRefused ==
    [][\A c \in TransferCalls :
           (c.a.index >= minted /\ TransferCall(c))
               => (last'.status = "err" /\ last'.err = "IndexOutOfRange" /\ nodes' = nodes)]_vars

\* C7: a mint with sound arguments on a manager with minted = capacity
\* fails with the error value CapacityExceeded before anything is
\* submitted and leaves the leaf array and minted unchanged.
C7_FullTreeRefusesMint ==
    [][\A c \in MintCalls :
           (/\ minted = Capacity
            /\ c.owner_private_key = TreeOwnerKey
            /\ c.nft_owner \in {Owner1, Owner2}
            /\ MintCall(c))
               => /\ last'.status = "err"
                  /\ last'.err = "CapacityExceeded"
                  /\ last'.tx.kind = "none"
                  /\ ~Changed]_vars

\* C8: for every i < minted the proof of i folded against the leaf hash
\* at slot i gives the root of the same leaf array.
C8_ProofFoldsToRoot ==
    \A i \in 0..(minted - 1) :
        Fold(get_proof(nodes, i), nodes[i], i) = MerkleRoot(nodes)

C8_Witness ==
    /\ minted >= 2
    /\ last.op = "transfer_cnft"
    /\ last.status = "ok"
    /\ last.tx.index < minted

\* C9: a successful mint at minted = k gives minted = k + 1 and writes to
\* slot k the leaf hash of the asset id of (tree, k), the recipient as
\* owner and delegate, nonce k and the hashes of the metadata; the leaf
\* differs from the sentinel and every other slot is unchanged.
C9_MintCommitsLeaf ==
    [][\A c \in MintCalls :
           (last'.op = "mint_cnft" /\ last'.status = "ok" /\ MintCall(c))
               => LET k == minted
                      recipient == PubkeyFromStr(c.nft_owner).pubkey
                      leaf == LeafHash(get_asset_id(serialized_tree_account, k),
                                       recipient, recipient, k,
                                       hash_metadata(k), hash_creators)
                  IN  /\ minted' = k + 1
                      /\ nodes'[k] = leaf
                      /\ nodes'[k] # ZeroHash
                      /\ \A j \in 0..(Capacity - 1) : j # k => nodes'[j] = nodes[j]]_vars

C9_Witness ==
    /\ last.op = "mint_cnft"
    /\ last.status = "ok"
    /\ minted = 2
    /\ nodes[1] # ZeroHash

\* C10: a successful transfer at index i to new owner N with decoded
\* hashes (d, c) writes to slot i the leaf hash of the asset id of
\* (tree, i), N as owner and delegate, nonce i, d and c, and leaves minted
\* and every other slot unchanged.
C10_TransferCommitsLeaf ==
    [][\A c \in TransferCalls :
           (last'.op = "transfer_cnft" /\ last'.status = "ok" /\ TransferCall(c))
               => LET i == c.a.index
                      N == PubkeyFromStr(c.a.new_owner_pub_key).pubkey
                      leaf == LeafHash(get_asset_id(serialized_tree_account, i),
                                       N, N, i,
                                       base58_to_array(c.a.data_hash).bytes,
                                       base58_to_array(c.a.creator_hash).bytes)
                  IN  /\ nodes'[i] = leaf
                      /\ \A j \in 0..(Capacity - 1) : j # i => nodes'[j] = nodes[j]
                      /\ minted' = minted]_vars

C10_Witness ==
    /\ last.op = "transfer_cnft"
    /\ last.status = "ok"
    /\ last.tx.index > 0
    /\ last.tx.index < minted

\* Position of the first occurrence of a step in the steps of a call, or
\* 0 when the call did not run it.
StepAt(steps, name) ==
    IF \E i \in 1..Len(steps) : steps[i] = name
    THEN CHOOSE i \in 1..Len(steps) :
             steps[i] = name /\ \A j \in 1..(i - 1) : steps[j] # name
    ELSE 0

\* C11: a transfer whose data hash or creator hash does not decode to 32
\* bytes fails with InvalidHashEncoding before the tree is built and
\* before a root or a proof is computed.
C11_HashDecodedBeforeTree ==
    [][\A c \in TransferCalls :
           (/\ last'.op = "transfer_cnft"
            /\ (~base58_to_array(c.a.data_hash).ok \/ ~base58_to_array(c.a.creator_hash).ok)
            /\ TransferCall(c))
               => /\ last'.err = "InvalidHashEncoding"
                  /\ StepAt(last'.steps, "convert_nodes") = 0
                  /\ StepAt(last'.steps, "merkle_tree_new") = 0
                  /\ StepAt(last'.steps, "get_proof") = 0]_vars

\* C12: from a state with minted = capacity on, no mint succeeds and
\* minted stays equal to capacity.
C12_FullTreeStaysFull ==
    [][minted = Capacity
           => /\ minted' = Capacity
              /\ last'.op = "mint_cnft" => last'.status # "ok"]_vars

C12_Witness ==
    /\ minted = Capacity
    /\ last.op = "mint_cnft"
    /\ last.tx.kind = "mint"
    /\ last.status = "err"

\* C13: no call aborts on an index outside [0, capacity): a transfer at
\* such an index returns the error value IndexOutOfRange and leaves the
\* manager as it was.
C13_IndexBoundsChecked ==
    [][/\ last'.status # "panic"
       /\ \A c \in TransferCalls :
              (last'.op = "transfer_cnft" /\ c.a.index >= Capacity /\ TransferCall(c))
                  => /\ last'.status = "err"
                     /\ last'.err = "IndexOutOfRange"
                     /\ UNCHANGED manager]_vars

\* C14: initialization does not fail and gives max_depth = MaxDepth (14
\* in the program), max_buffer_size = 64, minted = 0 and a leaf array of
\* exactly 2^max_depth entries, each the all-zero sentinel.
C14_InitGivesEmptyTree ==
    last.op = "init"
        => /\ last.status = "ok"
           /\ max_depth = MaxDepth
           /\ max_buffer_size = MaxBufferSize
           /\ minted = 0
           /\ DOMAIN nodes = 0..(Pow2(max_depth) - 1)
           /\ \A i \in DOMAIN nodes :
                  /\ Len(nodes[i]) = HashLen
                  /\ \A b \in 1..HashLen : nodes[i][b] = 0

C14_Witness ==
    /\ last.op = "init"
    /\ Cardinality(DOMAIN nodes) = Capacity
    /\ confirmations = 0

\* C15: a call of create_tree, whether it succeeds or fails, leaves the
\* leaf array, minted, the tree identity, max_depth and max_buffer_size
\* of the caller's manager as they were at entry.
C15_CreateLeavesManager ==
    [][last'.op = "create_tree"
           => /\ nodes' = nodes
              /\ minted' = minted
              /\ serialized_tree_account' = serialized_tree_account
              /\ max_depth' = max_depth
              /\ max_buffer_size' = max_buffer_size]_vars

C15_Witness ==
    /\ last.op = "create_tree"
    /\ last.status = "ok"
    /\ last.confirmed
    /\ minted > 0

\* C16: a mint or transfer that changes the leaf array or minted comes
\* after a confirmed create_tree for the tree of the manager, and a call
\* starts only when no other call is between submission and commit.
C16_CreateBeforeCommit ==
    [][/\ Changed => ledgerCreated
       /\ last'.op # "none" => last.op = "none"]_vars

\* Fields of a leaf, read back from LeafSchema::V1.
LeafId(leaf) == SubSeq(leaf, 2, 1 + Len(get_asset_id(0, 0)))
LeafNonce(leaf) == leaf[2 + Len(get_asset_id(0, 0)) + 2 * HashLen]

\* C17: a successful mint at minted = n writes slot n with nonce n, and in
\* every state the leaf at each slot i < minted carries nonce i and the
\* id of (tree identity, i), whether a mint or a transfer wrote it last.
C17_NonceIsSlot ==
    /\ [](\A i \in 0..(minted - 1) :
              /\ nodes[i] # ZeroHash
              /\ LeafNonce(nodes[i]) = i
              /\ LeafId(nodes[i]) = <<3, serialized_tree_account, i>>)
    /\ [][(last'.op = "mint_cnft" /\ last'.status = "ok")
              => /\ LeafNonce(nodes'[minted]) = minted
                 /\ LeafId(nodes'[minted]) = <<3, serialized_tree_account, minted>>
                 /\ minted' = minted + 1]_vars

C17_Witness ==
    /\ minted >= 2
    /\ last.op = "transfer_cnft"
    /\ last.status = "ok"
    /\ last.tx.index = 1
    /\ nodes[1][Len(nodes[1])] # 5

\* C18: the root and the proof in the transaction of a transfer are those
\* of the leaf array at entry of the call, the proof is the one of the
\* requested index and folds with the leaf at that index to the root, and
\* the nonce is the index.
C18_ProofFromEntrySnapshot ==
    [][\A c \in TransferCalls :
           (/\ last'.op = "transfer_cnft"
            /\ last'.tx.kind = "transfer"
            /\ c.a.index = last'.tx.index
            /\ TransferCall(c))
               => /\ last'.tx.root = MerkleRoot(nodes)
                  /\ last'.tx.proof = get_proof(nodes, c.a.index)
                  /\ Fold(last'.tx.proof, nodes[c.a.index], c.a.index) = last'.tx.root
                  /\ last'.tx.nonce = c.a.index]_vars

C18_Witness ==
    /\ last.op = "transfer_cnft"
    /\ last.status = "ok"
    /\ last.tx.index = 1
    /\ minted >= 2
    /\ last.tx.root # MerkleRoot(nodes)

\* Number of times a step occurs in the steps of a call.
Occurrences(steps, name) == Cardinality({i \in 1..Len(steps) : steps[i] = name})

\* C19: a call submits at most one transaction and the ledger confirms at
\* most one; a submission that fails ends the call with the error of the
\* submission, nothing being sent again.
C19_NoRetry ==
    [][/\ Occurrences(last'.steps, "submit") <= 1
       /\ confirmations' <= confirmations + 1
       /\ (last'.tx.kind # "none" /\ ~last'.confirmed)
              => /\ last'.status = "err"
                 /\ last'.err = "SubmissionFailed"
                 /\ last'.steps[Len(last'.steps)] = "submit"]_vars

C19_Witness ==
    /\ last.op = "transfer_cnft"
    /\ last.err = "SubmissionFailed"
    /\ Occurrences(last.steps, "submit") = 1
    /\ minted > 0

\* C20: the tree identity, max_depth, max_buffer_size and the length of
\* the leaf array are in every state those set at initialization.
C20_ShapeAndIdentityFixed ==
    /\ [](/\ max_depth = MaxDepth
          /\ max_buffer_size = MaxBufferSize
          /\ serialized_tree_account \in TreeAccounts
          /\ DOMAIN nodes = 0..(Pow2(max_depth) - 1))
    /\ [][/\ serialized_tree_account' = serialized_tree_account
          /\ max_depth' = max_depth
          /\ max_buffer_size' = max_buffer_size
          /\ DOMAIN nodes' = DOMAIN nodes]_vars

C20_Witness ==
    /\ last.op = "mint_cnft"
    /\ last.status = "ok"
    /\ ledgerCreated
    /\ minted >= 2
    /\ \E i \in DOMAIN nodes : nodes[i][Len(nodes[i])] # 5

=============================================================================
